---------------------------- MODULE Spec2Model ----------------------------
(***************************************************************************)
(* A model of the ddp node (TheMegaTB/ddp): block geometry, file           *)
(* preparation, the announce loop, source aggregation, block scheduling    *)
(* and the download loop, each translated from src/src/*.rs.               *)
(*                                                                         *)
(* Conventions                                                             *)
(*   - Option<T>: None is <<>>, Some(x) is <<x>>.                          *)
(*   - Vec<T> is a sequence; indices of the source are 0-based, sequences  *)
(*     are 1-based, so v[i] of the source is v[i + 1] here.                *)
(*   - A SHA-256 digest (a Vec<u8> in the source) is a one-element         *)
(*     sequence holding the hashed input: the hash is collision free and   *)
(*     nothing else is assumed of it.                                      *)
(*   - A socket address is a record [ip, port].                            *)
(***************************************************************************)
EXTENDS Integers, Sequences, FiniteSets, TLC

None == <<>>
Some(x) == <<x>>
\* a Vec built element by element: the sequence s, its elements computed once
Vec(s) == << >> \o s

(***************************************************************************)
(* Bounds of the model (not program constants).                            *)
(***************************************************************************)
\* sizes 0..MaxSmallSize are all explored by the block-size loop
MaxSmallSize == 6100
\* one size large enough for the loop to stop at the 1_000_000 cap
HugeSize == 1001000000
\* files of 0..MaxTinySize bytes are explored with every content
MaxTinySize == 3

(***************************************************************************)
(* std: Option's derived ordering, slice::sort_by, Seek + Write            *)
(***************************************************************************)
\* #[derive(PartialOrd, Ord)] on Option: None < Some(_), Some(x) < Some(y) iff x < y
option_less(a, b) ==
    IF a = None THEN b # None ELSE b # None /\ a[1] < b[1]

\* slice::sort_by, a stable sort; less[i][j] says whether the closure gives
\* Ordering::Less for (v[i], v[j]).  Element i goes behind every element that
\* is less than it and every equal element that came before it: place[i] is
\* the number of those.
sort_by(v, less) ==
    LET place == Vec([ i \in 1 .. Len(v) |->
                     Cardinality({ j \in 1 .. Len(v) :
                                     less[j][i] \/ (~ less[i][j] /\ j < i) }) ])
        at == Vec([ k \in 1 .. Len(v) |-> CHOOSE i \in 1 .. Len(v) : place[i] = k - 1 ])
    IN Vec([ k \in 1 .. Len(v) |-> v[at[k]] ])

\* f.seek(SeekFrom::Start(offset)); f.write_all(bytes): a write behind the end of
\* the file leaves a gap of zero bytes; a write of no bytes leaves the file as it is
write_at(file, offset, bytes) ==
    LET end == IF bytes # << >> /\ offset + Len(bytes) > Len(file)
               THEN offset + Len(bytes) ELSE Len(file)
    IN Vec([ i \in 1 .. end |->
               IF i > offset /\ i <= offset + Len(bytes) THEN bytes[i - offset]
               ELSE IF i <= Len(file) THEN file[i]
               ELSE 0 ])

(***************************************************************************)
(* helpers.rs: calculate_block_size                                        *)
(***************************************************************************)
BlockSizeStart == 2
BlockSizeCap == 1000000
MaxBlockCount == 1000

\* the while condition of calculate_block_size
bs_while(block_size, total_size) ==
    block_size < BlockSizeCap /\ total_size \div block_size > MaxBlockCount

\* a return of the value at which the loop ended
bs_return_keep(block_size) == block_size
\* helpers.rs:25: the value calculate_block_size returns once the loop has ended
bs_return(block_size) == block_size - 1

RECURSIVE bs_loop(_, _)
bs_loop(block_size, total_size) ==
    IF bs_while(block_size, total_size)
    THEN bs_loop(block_size + 1, total_size)
    ELSE block_size

calculate_block_size(total_size) == bs_return(bs_loop(BlockSizeStart, total_size))

(***************************************************************************)
(* sha2: Sha256 (input / result), an external library                      *)
(***************************************************************************)
Sha256(input) == << [sha256 |-> input] >>

(***************************************************************************)
(* State                                                                   *)
(***************************************************************************)
VARIABLES
    cbs,            \* calculate_block_size, run one loop iteration at a time
    sba,            \* sort_by_block_availability: its argument and its result
    conv,           \* convert_block_sources: its arguments and its result
    disk,           \* the serving peer's file system: path -> bytes
    prep,           \* the locals of File::prepare
    files,          \* the serving peer's catalog: Vec<File> in Arc<Mutex<..>>
    files_lock,     \* the catalog mutex: the thread that holds it, or None
    ann,            \* the announce thread: its position and its locals
    exit_code,      \* per process, Some(code) once exit! has run
    mcast,          \* datagrams sent to the multicast group, not yet received
    udp_sent,       \* every unicast datagram sent: [data, target, from]
    tcp_sent,       \* every TCP connection made to a requester: [payload, target, from]
    latency,        \* what ping measures for each peer: Option<Duration>
    req,            \* the requester: its position and its locals
    block_sources,  \* update_sources: HashMap<IpAddr, Vec<usize>>
    sources,        \* FileHandle.sources: Vec<Vec<IpAddr>>
    dest,           \* the destination file of the download
    dest_writes,    \* every write to the destination file: [offset, bytes, block]
    srv,            \* the block server: its worker's position, locals and replies
    png,            \* the ping server and one ping client, and their connection
    node_main       \* main(): its position and the locals of read_file

pureVars == << cbs, sba, conv >>
nodeVars == << disk, prep, files, files_lock, ann >>
netVars == << mcast, udp_sent, tcp_sent, latency >>
reqVars == << req, block_sources, sources, dest, dest_writes >>
sysVars == << srv, png, node_main >>
vars == << pureVars, nodeVars, exit_code, netVars, reqVars, sysVars >>

Running(process) == exit_code[process] = None

(***************************************************************************)
(* file.rs: File::prepare, one iteration of its byte loop per step.        *)
(* A hasher is modelled by the input it has been fed so far.  Reads of the *)
(* file succeed (the Err arm, exit!(1), is an I/O failure of the disk).    *)
(***************************************************************************)
PrepIdle == [pc |-> "idle", path |-> None, size |-> 0, block_size |-> 0, id |-> 0,
             block |-> << >>, block_hashes |-> << >>, hash |-> << >>]

\* file.rs:39-51: open the file, take its size, set up the hashers
PrepareOpen ==
    /\ Running("peer")
    /\ prep.pc \in {"idle", "done"}
    /\ \E path \in DOMAIN disk :
        /\ \A i \in 1 .. Len(files) : files[i].local_path # path
        /\ \A other \in DOMAIN disk :
             (\A i \in 1 .. Len(files) : files[i].local_path # other) => path <= other
        /\ prep' = [pc |-> "bytes", path |-> Some(path), size |-> Len(disk[path]),
                    block_size |-> calculate_block_size(Len(disk[path])), id |-> 0,
                    block |-> << >>, block_hashes |-> << >>, hash |-> << >>]
    /\ UNCHANGED << sysVars, pureVars, disk, files, files_lock, ann, exit_code, netVars, reqVars >>

\* file.rs:55: the block collected so far is hashed before byte number id is added
prepare_flush(id, block_size, block) == id % block_size = 0 /\ Len(block) > 0

\* a prepare that feeds the whole-file hasher nothing after the loop
prepare_tail_skip(block) == << >>
\* file.rs:76: what the whole-file hasher is fed after the loop
prepare_tail(block) == block

\* file.rs:52-70: the Ok(byte) arm for byte number prep.id
PrepareByte ==
    /\ Running("peer")
    /\ prep.pc = "bytes"
    /\ prep.id < prep.size
    /\ LET byte == disk[prep.path[1]][prep.id + 1]
           flush == prepare_flush(prep.id, prep.block_size, prep.block)
       IN prep' = [prep EXCEPT
                     !.block_hashes = IF flush THEN Append(@, Sha256(prep.block)) ELSE @,
                     !.hash = IF flush THEN @ \o prep.block ELSE @,
                     !.block = IF flush THEN << byte >> ELSE Append(@, byte),
                     !.id = @ + 1]
    /\ UNCHANGED << sysVars, pureVars, disk, files, files_lock, ann, exit_code, netVars, reqVars >>

\* FileMetadata.trailing_bytes, which request.rs:221 reads: file.rs declares no
\* such field and File::prepare stores none, so it is taken from the
\* specification: the final size mod BlockSize(size) bytes of the file
trailing_bytes(content) ==
    LET size == Len(content)
    IN SubSeq(content, size - (size % calculate_block_size(size)) + 1, size)

\* file.rs:80-90: the File that prepare returns
prepared_file(p, content) ==
    [ metadata |-> [ hash |-> << Sha256(p.hash), p.block_hashes >>,
                     size |-> p.size,
                     trailing_bytes |-> trailing_bytes(content) ],
      blocks |-> Vec([ i \in 1 .. Len(p.block_hashes) |-> << i - 1, 0 >> ]),
      local_path |-> p.path[1] ]

\* file.rs:74-91: the loop has ended; the File goes into the catalog that
\* announce() is given
PrepareFinish ==
    /\ Running("peer")
    /\ prep.pc = "bytes"
    /\ prep.id = prep.size
    /\ prep' = [prep EXCEPT !.pc = "done", !.hash = @ \o prepare_tail(prep.block)]
    /\ files' = Append(files, prepared_file(prep', disk[prep.path[1]]))
    /\ UNCHANGED << sysVars, pureVars, disk, files_lock, ann, exit_code, netVars, reqVars >>

\* every path of the disk has been prepared: the node starts announce(files)
Cataloged == prep.pc \in {"idle", "done"} /\ Len(files) = Cardinality(DOMAIN disk)

(***************************************************************************)
(* announce.rs: the announce thread (announce.rs:16-55)                    *)
(***************************************************************************)
PeerIp == "A"
AnnIdle == [pc |-> "receive", data |-> << >>, src |-> None,
            file_details_requested |-> None, matching |-> << >>, received |-> 0]

\* Vec::pop: the last element, if there is one
pop_value(v) == IF v = << >> THEN None ELSE Some(v[Len(v)])
pop_rest(v) == IF v = << >> THEN << >> ELSE SubSeq(v, 1, Len(v) - 1)

\* announce.rs:20-21: sock.receive(), data.pop()
AnnounceReceive ==
    /\ Running("peer")
    /\ Cataloged
    /\ ann.pc = "receive"
    /\ mcast # << >>
    /\ ann' = [ann EXCEPT !.pc = "lock",
                          !.data = pop_rest(Head(mcast).data),
                          !.file_details_requested = pop_value(Head(mcast).data),
                          !.src = Some(Head(mcast).src),
                          !.received = @ + 1]
    /\ mcast' = Tail(mcast)
    /\ UNCHANGED << sysVars, pureVars, disk, prep, files, files_lock, exit_code,
                    udp_sent, tcp_sent, latency, reqVars >>

\* std::sync::Mutex: a thread that panics while it holds the guard leaves the
\* mutex poisoned; lock() then returns Err and unwrap() panics
Poisoned == Some("poisoned")

\* announce.rs:23: files.lock().unwrap(): waits while a worker holds the lock;
\* on a poisoned mutex the unwrap panics and the announce thread ends
AnnounceLock ==
    /\ Running("peer")
    /\ ann.pc = "lock"
    /\ files_lock \in {None, Poisoned}
    /\ IF files_lock = Poisoned
       THEN /\ ann' = [ann EXCEPT !.pc = "panicked"]
            /\ UNCHANGED files_lock
       ELSE /\ files_lock' = Some("announce")
            /\ ann' = [ann EXCEPT !.pc = "filter"]
    /\ UNCHANGED << sysVars, pureVars, disk, prep, files, exit_code, netVars, reqVars >>

\* announce.rs:27: the files the filter lets through, by their place in the catalog
SeqOfSet(S) ==
    Vec([ k \in 1 .. Cardinality(S) |->
            CHOOSE i \in S : Cardinality({ j \in S : j < i }) = k - 1 ])
matching_files(catalog, data) ==
    SeqOfSet({ i \in 1 .. Len(catalog) : catalog[i].metadata.hash[1] = data })

\* announce.rs:28: Filter::size_hint().1, the upper bound of a Filter, is the
\* upper bound of the iterator it filters: the number of files of the catalog
size_hint_upper(catalog, data) == Some(Len(catalog))

\* announce.rs:27-28
AnnounceFilter ==
    /\ Running("peer")
    /\ ann.pc = "filter"
    /\ IF option_less(Some(1), size_hint_upper(files, ann.data))
       THEN /\ exit_code' = [exit_code EXCEPT !["peer"] = Some(1)]
            /\ UNCHANGED ann
       ELSE /\ ann' = [ann EXCEPT !.pc = "reply", !.matching = matching_files(files, ann.data)]
            /\ UNCHANGED exit_code
    /\ UNCHANGED << sysVars, pureVars, disk, prep, files, files_lock, netVars, reqVars >>

\* a handler that counts the query as a serve of every block
sorted_blocks_counted(blocks) ==
    Vec([ i \in 1 .. Len(blocks) |-> << blocks[i][1], blocks[i][2] + 1 >> ])
\* a comparator that puts the busiest block first
blocks_less_reversed(a, b) == a[2] > b[2]
\* announce.rs:43: file.blocks.sort_by(|a, b| a.1.cmp(&b.1))
blocks_less(a, b) == a[2] < b[2]
sorted_blocks(blocks) ==
    sort_by(blocks, [ i \in DOMAIN blocks |->
                        [ j \in DOMAIN blocks |-> blocks_less(blocks[i], blocks[j]) ] ])
\* announce.rs:45
block_list_of(blocks) == Vec([ i \in 1 .. Len(blocks) |-> blocks[i][1] ])

\* TcpStream::connect(src): whether a listener of the requester accepts it; any
\* other host may accept or refuse
connect_outcomes(src) ==
    IF src.ip = "R" THEN { req.tcp_listener = Some(src) } ELSE BOOLEAN

\* announce.rs:30-53: the body of the for loop for the next matching file
AnnounceReply ==
    /\ Running("peer")
    /\ ann.pc = "reply"
    /\ ann.matching # << >>
    /\ LET i == Head(ann.matching)
           file == files[i]
           src == ann.src[1]
       IN \/ /\ ann.file_details_requested = Some(1)
             /\ \E connected \in connect_outcomes(src) :
                  tcp_sent' = IF connected
                              THEN Append(tcp_sent, [payload |-> file.metadata,
                                                     target |-> src, from |-> PeerIp])
                              ELSE tcp_sent
             /\ UNCHANGED << files, udp_sent >>
          \/ /\ ann.file_details_requested = Some(0)
             /\ files' = [files EXCEPT ![i].blocks = sorted_blocks(file.blocks)]
             /\ udp_sent' = IF Len(block_list_of(files'[i].blocks)) > 0
                            THEN Append(udp_sent, [data |-> block_list_of(files'[i].blocks),
                                                   target |-> src, from |-> PeerIp])
                            ELSE udp_sent
             /\ UNCHANGED tcp_sent
          \/ /\ ann.file_details_requested \notin {Some(0), Some(1)}
             /\ UNCHANGED << files, udp_sent, tcp_sent >>
    /\ ann' = [ann EXCEPT !.matching = Tail(@)]
    /\ UNCHANGED << sysVars, pureVars, disk, prep, files_lock, exit_code, mcast, latency, reqVars >>

\* announce.rs:54: the end of the loop body drops the MutexGuard
AnnounceUnlock ==
    /\ Running("peer")
    /\ ann.pc = "reply"
    /\ ann.matching = << >>
    /\ files_lock' = None
    /\ ann' = [ann EXCEPT !.pc = "receive"]
    /\ UNCHANGED << sysVars, pureVars, disk, prep, files, exit_code, netVars, reqVars >>

(***************************************************************************)
(* announce.rs: the block server (announce.rs:58-77), file.rs: get_block   *)
(***************************************************************************)
\* file.rs:93-101: read_exact fails (and unwrap panics: None) when the file has
\* fewer than block_size bytes from the block's offset on
get_block(file, block_id) ==
    LET content == disk[file.local_path]
        block_size == calculate_block_size(Len(content))
        start == block_size * block_id
    IN IF start + block_size <= Len(content)
       THEN Some(SubSeq(content, start + 1, start + block_size))
       ELSE None

\* announce.rs:62-75: the bytes a worker writes back for the request (hash, block)
\* before its stream closes
block_reply(catalog, hash, block) ==
    LET found == { i \in 1 .. Len(catalog) : catalog[i].metadata.hash[1] = hash }
    IN IF found = { } THEN << >>
       ELSE LET file == catalog[CHOOSE i \in found : \A j \in found : i <= j]
                read == get_block(file, block)
            IN IF read = None THEN << >> ELSE read[1]

\* announce.rs:69-71: the worker panics (get_block's read_exact(..).unwrap())
\* when the file is found and the block cannot be read
worker_panics(catalog, hash, block) ==
    LET found == { i \in 1 .. Len(catalog) : catalog[i].metadata.hash[1] = hash }
    IN /\ found # { }
       /\ get_block(catalog[CHOOSE i \in found : \A j \in found : i <= j], block) = None

\* the block server handles one connection at a time here: pc is the position
\* of the worker of the current connection, replies what every connection got
SrvIdle == [pc |-> "accept", hash |-> << >>, block |-> 0, replies |-> << >>]

\* block requests of other nodes: (whole hash, block id)
MaxBlockRequests == 2
MaxBlockId == 2

\* announce.rs:60-67: a connection comes in, its worker reads the request to
\* the end and deserializes (hash, block)
ServerAccept ==
    /\ Running("peer")
    /\ Cataloged
    /\ srv.pc = "accept"
    /\ Len(srv.replies) < MaxBlockRequests
    /\ \E hash \in { files[i].metadata.hash[1] : i \in 1 .. Len(files) } \cup { Sha256(<< 0 >>) },
          block \in 0 .. MaxBlockId :
         srv' = [srv EXCEPT !.pc = "lock", !.hash = hash, !.block = block]
    /\ UNCHANGED << pureVars, nodeVars, exit_code, netVars, reqVars, png, node_main >>

\* announce.rs:68: files.lock().unwrap(): on a poisoned mutex the worker
\* panics and its stream closes with nothing written
WorkerLock ==
    /\ Running("peer")
    /\ srv.pc = "lock"
    /\ files_lock \in {None, Poisoned}
    /\ IF files_lock = Poisoned
       THEN /\ srv' = [srv EXCEPT !.pc = "accept",
                                  !.replies = Append(@, [hash |-> srv.hash, block |-> srv.block,
                                                         bytes |-> << >>, outcome |-> "lock_panicked"])]
            /\ UNCHANGED files_lock
       ELSE /\ files_lock' = Some("worker")
            /\ srv' = [srv EXCEPT !.pc = "find"]
    /\ UNCHANGED << pureVars, disk, prep, files, ann, exit_code, netVars, reqVars, png, node_main >>

\* the state of the mutex when the worker's guard is dropped: by the end of
\* its scope, or by the unwinding of a panic
guard_dropped(panicking) == IF panicking THEN Poisoned ELSE None
\* a mutex that forgets the panic of its holder
guard_dropped_clean(panicking) == None

\* announce.rs:69-75: find the file, write get_block's bytes (or warn), and
\* drop the guard and the stream
WorkerServe ==
    /\ Running("peer")
    /\ srv.pc = "find"
    /\ files_lock = Some("worker")
    /\ LET panics == worker_panics(files, srv.hash, srv.block)
           bytes == block_reply(files, srv.hash, srv.block)
       IN /\ srv' = [srv EXCEPT !.pc = "accept",
                                 !.replies = Append(@, [hash |-> srv.hash, block |-> srv.block,
                                                        bytes |-> bytes,
                                                        outcome |-> IF panics THEN "read_panicked"
                                                                    ELSE IF bytes = << >> THEN "nothing"
                                                                    ELSE "written"])]
          /\ files_lock' = guard_dropped(panics)
    /\ UNCHANGED << pureVars, disk, prep, files, ann, exit_code, netVars, reqVars, png, node_main >>

(***************************************************************************)
(* networking.rs: ping (networking.rs:25-43).  A failed connect, write or  *)
(* read gives None, an answer gives Some(elapsed); what a peer's ping      *)
(* gives is fixed for the time of one sort.                                *)
(***************************************************************************)
ping(target) == latency[target]

(***************************************************************************)
(* networking.rs: the ping server (networking.rs:13-23) and one client     *)
(* running ping (networking.rs:25-43), step by step, on a clock in         *)
(* milliseconds                                                            *)
(***************************************************************************)
ReadTimeoutMillis == 5000
TickMillis == 2500
MaxClock == 7500
MaxPings == 2

\* spc: the server's position; cpc: the client's; to_server: the bytes written
\* by the client and not yet read; wrote: the bytes the server has written to
\* the connection; closed: the server has dropped its stream
PngIdle == [spc |-> "down", cpc |-> "idle", to_server |-> << >>, wrote |-> << >>,
            conn |-> FALSE, accepted |-> FALSE, closed |-> FALSE, clock |-> 0, start |-> 0,
            ret |-> None, pings |-> 0]

\* time passes
Tick ==
    /\ png.clock < MaxClock
    /\ png' = [png EXCEPT !.clock = @ + TickMillis]
    /\ UNCHANGED << pureVars, nodeVars, exit_code, netVars, reqVars, srv, node_main >>

\* networking.rs:15: bind
PingServerStart ==
    /\ png.spc = "down"
    /\ png' = [png EXCEPT !.spc = "accept"]
    /\ UNCHANGED << pureVars, nodeVars, exit_code, netVars, reqVars, srv, node_main >>

\* networking.rs:26-30: connect, set_read_timeout, start = now(); a connect to
\* a port nobody listens on fails and ping returns None
PingConnect ==
    /\ png.cpc = "idle"
    /\ png.pings < MaxPings
    /\ IF png.spc = "down"
       THEN png' = [png EXCEPT !.cpc = "done", !.ret = Some(None), !.pings = @ + 1]
       ELSE png' = [png EXCEPT !.cpc = "connected", !.start = png.clock, !.pings = @ + 1,
                               !.to_server = << >>, !.wrote = << >>,
                               !.conn = TRUE, !.accepted = FALSE, !.closed = FALSE,
                               !.ret = None]
    /\ UNCHANGED << pureVars, nodeVars, exit_code, netVars, reqVars, srv, node_main >>

\* networking.rs:31: stream.write(&[1])
PingWrite ==
    /\ png.cpc = "connected"
    /\ png' = [png EXCEPT !.cpc = "written", !.to_server = Append(@, 1)]
    /\ UNCHANGED << pureVars, nodeVars, exit_code, netVars, reqVars, srv, node_main >>

\* networking.rs:16-18: the next connection of incoming(); let mut buf = Vec::new()
PingServerAccept ==
    /\ png.spc = "accept"
    /\ png.conn
    /\ ~ png.accepted
    /\ png' = [png EXCEPT !.spc = "read", !.accepted = TRUE]
    /\ UNCHANGED << pureVars, nodeVars, exit_code, netVars, reqVars, srv, node_main >>

\* networking.rs:19: stream.read(&mut [0]): one byte of what the client wrote
PingServerRead ==
    /\ png.spc = "read"
    /\ png.to_server # << >>
    /\ png' = [png EXCEPT !.spc = "write", !.to_server = Tail(@)]
    /\ UNCHANGED << pureVars, nodeVars, exit_code, netVars, reqVars, srv, node_main >>

\* networking.rs:18: the buffer the server writes back: Vec::new(), never filled
ping_buf(read) == << >>
\* a server that writes back the byte it has read
ping_buf_echo(read) == << read >>

\* networking.rs:20: stream.write_all(&mut buf)
PingServerWrite ==
    /\ png.spc = "write"
    /\ png' = [png EXCEPT !.spc = "close", !.wrote = @ \o ping_buf(1)]
    /\ UNCHANGED << pureVars, nodeVars, exit_code, netVars, reqVars, srv, node_main >>

\* networking.rs:21: the stream goes out of scope and the connection closes
PingServerClose ==
    /\ png.spc = "close"
    /\ png' = [png EXCEPT !.spc = "accept", !.closed = TRUE]
    /\ UNCHANGED << pureVars, nodeVars, exit_code, netVars, reqVars, srv, node_main >>

\* networking.rs:33-36: stream.read(&mut [0]) returns Ok when a byte has come
\* (Ok(1)) or the peer has closed (Ok(0)), and Err when the read timeout of
\* 5000 ms has passed first
PingRead ==
    /\ png.cpc = "written"
    /\ png.wrote # << >> \/ png.closed \/ png.clock - png.start >= ReadTimeoutMillis
    /\ IF png.wrote # << >> \/ png.closed
       THEN png' = [png EXCEPT !.cpc = "done", !.ret = Some(Some(png.clock - png.start))]
       ELSE png' = [png EXCEPT !.cpc = "done", !.ret = Some(None)]
    /\ UNCHANGED << pureVars, nodeVars, exit_code, netVars, reqVars, srv, node_main >>

\* ping is called again (request.rs:38: once per source of a block)
PingAgain ==
    /\ png.cpc = "done"
    /\ png.conn => png.closed
    /\ png.pings < MaxPings
    /\ png' = [png EXCEPT !.cpc = "idle"]
    /\ UNCHANGED << pureVars, nodeVars, exit_code, netVars, reqVars, srv, node_main >>

(***************************************************************************)
(* main.rs: main (main.rs:337-352) and read_file (main.rs:303-335)         *)
(***************************************************************************)
ReadStep == 1000000
MaxMainSize == 4

MainIdle == [pc |-> "idle", id |-> 0, buf |-> << >>, hashed |-> << >>, printed |-> None,
             exit_code |-> None, ping_servers |-> 0, announces |-> 0, requests |-> 0]

\* main.rs:338-341, 306-315: the logger, the banner, and read_file opens ./test
MainStart ==
    /\ node_main.pc = "start"
    /\ node_main' = [node_main EXCEPT !.pc = "read_file"]
    /\ UNCHANGED << pureVars, nodeVars, exit_code, netVars, reqVars, srv, png >>

\* main.rs:316-328: one byte of ./test
ReadFileByte ==
    /\ node_main.pc = "read_file"
    /\ node_main.id < Len(disk[1])
    /\ LET byte == disk[1][node_main.id + 1]
       IN IF node_main.id % ReadStep = 0
          THEN node_main' = [node_main EXCEPT !.hashed = @ \o node_main.buf,
                                              !.buf = << byte >>, !.id = @ + 1]
          ELSE node_main' = [node_main EXCEPT !.buf = Append(@, byte), !.id = @ + 1]
    /\ UNCHANGED << pureVars, nodeVars, exit_code, netVars, reqVars, srv, png >>

\* main.rs:329-334: the rest goes into the hash, which is printed
ReadFileFinish ==
    /\ node_main.pc = "read_file"
    /\ node_main.id = Len(disk[1])
    /\ node_main' = [node_main EXCEPT !.pc = "exit", !.hashed = @ \o node_main.buf,
                                      !.printed = Sha256(node_main.hashed \o node_main.buf)]
    /\ UNCHANGED << pureVars, nodeVars, exit_code, netVars, reqVars, srv, png >>

\* main.rs:342-351: the statements of main after read_file, one per step;
\* exit!(3) ends the process, so it has no successor
main_statement(m) ==
    CASE m.pc = "exit" -> [m EXCEPT !.pc = "exited", !.exit_code = Some(3)]
      [] m.pc = "ping_server" -> [m EXCEPT !.pc = "announce", !.ping_servers = @ + 1]
      [] m.pc = "announce" -> [m EXCEPT !.pc = "request", !.announces = @ + 1]
      [] m.pc = "request" -> [m EXCEPT !.pc = "join", !.requests = @ + 1]

MainContinue ==
    /\ node_main.pc \in {"exit", "ping_server", "announce", "request"}
    /\ node_main' = main_statement(node_main)
    /\ UNCHANGED << pureVars, nodeVars, exit_code, netVars, reqVars, srv, png >>

(***************************************************************************)
(* request.rs: convert_block_sources (request.rs:27-50)                    *)
(***************************************************************************)
\* request.rs:33-35 for one source: (rank, source) for every rank at which the
\* source lists the block
source_hits(source, blocks, block) ==
    LET ranks == SeqOfSet({ r \in 1 .. Len(blocks) : blocks[r] = block })
    IN Vec([ k \in 1 .. Len(ranks) |-> << ranks[k] - 1, source >> ])

\* request.rs:32-36: what has been pushed to block_sources[block] once the
\* HashMap has been iterated, its sources coming in the order `order`
pushed_sources(srcmap, order, block) ==
    LET upto[n \in 0 .. Len(order)] ==
            IF n = 0 THEN << >>
            ELSE upto[n - 1] \o source_hits(order[n], srcmap[order[n]], block)
    IN upto[Len(order)]

\* request.rs:38-46: the comparator handed to sort_by is Ordering::Less
source_less(a, b) ==
    \/ a[1] < b[1]
    \/ a[1] = b[1] /\ option_less(ping(a[2]), ping(b[2]))

\* request.rs:28
block_count_of(filesize) == filesize \div calculate_block_size(filesize)

\* request.rs:35: block_sources[*block] panics for an index that is not below
\* block_count
convert_panics(filesize, srcmap) ==
    \E s \in DOMAIN srcmap : \E r \in 1 .. Len(srcmap[s]) :
        srcmap[s][r] >= block_count_of(filesize)

\* request.rs:27-50: None when the function panics, else Some(the Vec<Vec<IpAddr>>)
convert_block_sources(filesize, srcmap, order) ==
    IF convert_panics(filesize, srcmap) THEN None
    ELSE Some(Vec([ b \in 1 .. block_count_of(filesize) |->
                  LET pushed == pushed_sources(srcmap, order, b - 1)
                      sorted == sort_by(pushed,
                                        [ i \in DOMAIN pushed |->
                                            [ j \in DOMAIN pushed |->
                                                source_less(pushed[i], pushed[j]) ] ])
                  IN Vec([ k \in 1 .. Len(sorted) |-> sorted[k][2] ]) ]))

\* the orders in which a HashMap may iterate its keys
Orders(S) ==
    { o \in [ 1 .. Cardinality(S) -> S ] : \A i, j \in DOMAIN o : i # j => o[i] # o[j] }

(***************************************************************************)
(* request.rs: sort_by_block_availability (request.rs:52-68)               *)
(***************************************************************************)
\* a comparator without the arms for blocks that have no source
availability_less_plain(a, b) == a[2] < b[2]
\* request.rs:55-64: the comparator is Ordering::Less
availability_less(a, b) ==
    IF a[2] = 0 /\ b[2] = 0 THEN FALSE
    ELSE IF a[2] = 0 THEN FALSE
    ELSE IF b[2] = 0 THEN TRUE
    ELSE a[2] < b[2]

sort_by_block_availability(srcs) ==
    LET block_availability == Vec([ i \in 1 .. Len(srcs) |-> << i - 1, Len(srcs[i]) >> ])
        sorted == sort_by(block_availability,
                          [ i \in DOMAIN block_availability |->
                              [ j \in DOMAIN block_availability |->
                                  availability_less(block_availability[i],
                                                    block_availability[j]) ] ])
    IN Vec([ k \in 1 .. Len(sorted) |-> sorted[k][1] ])

(***************************************************************************)
(* request.rs: File::from_metadata (request.rs:71-130)                     *)
(***************************************************************************)
RequesterIp == "R"
MetadataAddr == [ip |-> RequesterIp, port |-> 1]   \* the handle of from_metadata
SourcesAddr == [ip |-> RequesterIp, port |-> 2]    \* the handle of update_sources

ReqIdle == [pc |-> "idle", uuid |-> << >>, tcp_pc |-> "none", tcp_ready |-> FALSE,
            tcp_listener |-> None, tcp_rx |-> None,
            metadata |-> None, file |-> None, tcp_read |-> 0, udp_read |-> 0,
            missed |-> FALSE, order |-> << >>, bi |-> 1, si |-> 1, log |-> << >>]

\* request.rs:76-99: bind the UDP handle, take its address, spawn the TCP thread
FromMetadataSpawn ==
    /\ Running("requester")
    /\ req.pc = "idle"
    /\ req.uuid # << >>
    /\ req' = [req EXCEPT !.pc = "wait", !.tcp_pc = "bind"]
    /\ UNCHANGED << sysVars, pureVars, nodeVars, exit_code, netVars,
                    block_sources, sources, dest, dest_writes >>

\* request.rs:85: the TCP thread binds a listener to the handle's address; when
\* the port is taken by another TCP socket the unwrap panics and the thread ends
TcpBind ==
    /\ Running("requester")
    /\ req.tcp_pc = "bind"
    /\ \/ req' = [req EXCEPT !.tcp_pc = "ready", !.tcp_listener = Some(MetadataAddr)]
       \/ req' = [req EXCEPT !.tcp_pc = "panicked"]
    /\ UNCHANGED << sysVars, pureVars, nodeVars, exit_code, netVars,
                    block_sources, sources, dest, dest_writes >>

\* request.rs:86: *tcp_ready_thread.lock().unwrap() = true
TcpReady ==
    /\ Running("requester")
    /\ req.tcp_pc = "ready"
    /\ req' = [req EXCEPT !.tcp_pc = "accept", !.tcp_ready = TRUE]
    /\ UNCHANGED << sysVars, pureVars, nodeVars, exit_code, netVars,
                    block_sources, sources, dest, dest_writes >>

\* a wait that does not look at the latch
latch_open_always(tcp_ready) == TRUE
\* request.rs:103: if *tcp_ready.lock().unwrap() == true { break; }
latch_open(tcp_ready) == tcp_ready = TRUE

\* request.rs:101-105: push the flag, leave the polling loop once the latch is set
FromMetadataWait ==
    /\ Running("requester")
    /\ req.pc = "wait"
    /\ latch_open(req.tcp_ready)
    /\ req' = [req EXCEPT !.pc = "send"]
    /\ UNCHANGED << sysVars, pureVars, nodeVars, exit_code, netVars,
                    block_sources, sources, dest, dest_writes >>

\* request.rs:106: multicast uuid ++ [1]
FromMetadataSend ==
    /\ Running("requester")
    /\ req.pc = "send"
    /\ req' = [req EXCEPT !.pc = "collect"]
    /\ mcast' = Append(mcast, [data |-> Append(req.uuid, 1), src |-> MetadataAddr])
    /\ UNCHANGED << sysVars, pureVars, nodeVars, exit_code, udp_sent, tcp_sent, latency,
                    block_sources, sources, dest, dest_writes >>

\* a thread that hands on whatever metadata it reads
metadata_matches_any(metadata, hash_copy) == TRUE
\* request.rs:97: metadata.hash.0 != hash_copy is the mismatch
metadata_matches(metadata, hash_copy) == metadata.hash[1] = hash_copy

\* request.rs:87-98: the TCP thread accepts one connection, reads the metadata
\* and compares its hash
FromMetadataAccept ==
    /\ Running("requester")
    /\ req.tcp_pc = "accept"
    /\ req.tcp_read < Len(tcp_sent)
    /\ LET conn == tcp_sent[req.tcp_read + 1]
       IN IF conn.target # req.tcp_listener[1]
          THEN /\ req' = [req EXCEPT !.tcp_read = @ + 1]
               /\ UNCHANGED exit_code
          ELSE IF ~ metadata_matches(conn.payload, req.uuid)
          THEN /\ exit_code' = [exit_code EXCEPT !["requester"] = Some(2)]
               /\ req' = [req EXCEPT !.tcp_read = @ + 1]
          ELSE /\ req' = [req EXCEPT !.tcp_read = @ + 1, !.tcp_pc = "done",
                                     !.tcp_listener = None,
                                     !.tcp_rx = Some(Some(conn.payload))]
               /\ UNCHANGED exit_code
    /\ UNCHANGED << sysVars, pureVars, nodeVars, netVars, block_sources, sources, dest, dest_writes >>

\* request.rs:87-93: accept fails: the TCP thread sends None and returns
TcpAcceptFail ==
    /\ Running("requester")
    /\ req.tcp_pc = "accept"
    /\ req' = [req EXCEPT !.tcp_pc = "done", !.tcp_listener = None, !.tcp_rx = Some(None)]
    /\ UNCHANGED << sysVars, pureVars, nodeVars, exit_code, netVars,
                    block_sources, sources, dest, dest_writes >>

\* request.rs:112-119: inside the window, try_recv takes what the TCP thread sent
FromMetadataRecv ==
    /\ Running("requester")
    /\ req.pc = "collect"
    /\ req.tcp_rx # None
    /\ req' = [req EXCEPT !.pc = "received", !.metadata = req.tcp_rx[1], !.tcp_rx = None]
    /\ UNCHANGED << sysVars, pureVars, nodeVars, exit_code, netVars,
                    block_sources, sources, dest, dest_writes >>

\* request.rs:120-126: the next turn of the loop, still inside the window;
\* metadata.unwrap() panics when the TCP thread had sent None
FromMetadataReturn ==
    /\ Running("requester")
    /\ req.pc = "received"
    /\ IF req.metadata = None
       THEN req' = [req EXCEPT !.pc = "panicked"]
       ELSE req' = [req EXCEPT !.pc = "have_file",
                               !.file = Some([metadata |-> req.metadata[1],
                                              blocks |-> << >>, local_path |-> 1])]
    /\ UNCHANGED << sysVars, pureVars, nodeVars, exit_code, netVars,
                    block_sources, sources, dest, dest_writes >>

\* request.rs:111,129: the window of one second is over
FromMetadataTimeout ==
    /\ Running("requester")
    /\ req.pc \in {"collect", "received"}
    /\ req' = [req EXCEPT !.pc = "no_file"]
    /\ UNCHANGED << sysVars, pureVars, nodeVars, exit_code, netVars,
                    block_sources, sources, dest, dest_writes >>

(***************************************************************************)
(* request.rs: FileHandle::update_sources (request.rs:135-169)             *)
(***************************************************************************)
\* request.rs:136-148: multicast uuid ++ [0] from a new handle
UpdateSourcesSend ==
    /\ Running("requester")
    /\ req.pc = "have_file"
    /\ req' = [req EXCEPT !.pc = "update_sources", !.udp_read = Len(udp_sent)]
    /\ mcast' = Append(mcast, [data |-> Append(req.file[1].metadata.hash[1], 0),
                               src |-> SourcesAddr])
    /\ block_sources' = << >>
    /\ UNCHANGED << sysVars, pureVars, nodeVars, exit_code, udp_sent, tcp_sent, latency,
                    sources, dest, dest_writes >>

\* an aggregation in which a later datagram of an ip replaces its list
aggregate_overwrite(view, ip, data) ==
    [ i \in DOMAIN view \cup {ip} |-> IF i = ip THEN data ELSE view[i] ]
\* request.rs:157-162: append to the list of a known ip, insert for a new one
aggregate(view, ip, data) ==
    IF ip \in DOMAIN view
    THEN [view EXCEPT ![ip] = @ \o data]
    ELSE [ i \in DOMAIN view \cup {ip} |-> IF i = ip THEN data ELSE view[i] ]

\* request.rs:143-147,153-165: the next datagram the handle received
UpdateSourcesRecv ==
    /\ Running("requester")
    /\ req.pc = "update_sources"
    /\ req.udp_read < Len(udp_sent)
    /\ LET d == udp_sent[req.udp_read + 1]
       IN block_sources' = IF d.target = SourcesAddr
                           THEN aggregate(block_sources, d.from, d.data)
                           ELSE block_sources
    /\ req' = [req EXCEPT !.udp_read = @ + 1]
    /\ UNCHANGED << sysVars, pureVars, nodeVars, exit_code, netVars, sources, dest, dest_writes >>

\* a reply to the query is still on its way
ReplyOutstanding ==
    \/ mcast # << >>
    \/ ann.pc # "receive"
    \/ req.udp_read < Len(udp_sent)

\* request.rs:152,168: the window of one second is over
UpdateSourcesConvert ==
    /\ Running("requester")
    /\ req.pc = "update_sources"
    /\ \E order \in Orders(DOMAIN block_sources) :
         LET converted == convert_block_sources(req.file[1].metadata.size,
                                                block_sources, order)
         IN IF converted = None
            THEN /\ req' = [req EXCEPT !.pc = "panicked", !.missed = ReplyOutstanding]
                 /\ UNCHANGED sources
            ELSE /\ req' = [req EXCEPT !.pc = "create", !.missed = ReplyOutstanding]
                 /\ sources' = converted[1]
    /\ UNCHANGED << sysVars, pureVars, nodeVars, exit_code, netVars, block_sources, dest, dest_writes >>

(***************************************************************************)
(* request.rs: FileHandle::download (request.rs:183-222)                   *)
(***************************************************************************)
\* request.rs:186-191: create (truncate) the destination, order the blocks
DownloadCreate ==
    /\ Running("requester")
    /\ req.pc = "create"
    /\ dest' = << >>
    /\ dest_writes' = << >>
    /\ req' = [req EXCEPT !.pc = "blocks", !.order = sort_by_block_availability(sources),
                          !.bi = 1, !.si = 1, !.log = << >>]
    /\ UNCHANGED << sysVars, pureVars, nodeVars, exit_code, netVars, block_sources, sources >>

\* a download that writes whatever it receives
block_verified_skip(buf, expected) == TRUE
\* request.rs:208: the comparison the received block has to pass
block_verified(buf, expected) == buf = expected

\* what a peer other than the serving peer may answer to a block request:
\* any short byte string (<< >> is a stream closed without data)
ByteAlphabet == {170, 85}
ForeignReplies ==
    {<< >>} \cup { << a >> : a \in ByteAlphabet }
            \cup { << a, b >> : a \in ByteAlphabet, b \in {0} }

\* request.rs:195-202: connect to source:BASE_PORT, send (hash, block_id),
\* shut down the write side and read to the end: None when the connect
\* fails, else Some(the bytes read)
block_answers(source, hash, block_id) ==
    IF source = PeerIp
    THEN IF Running("peer") THEN { Some(block_reply(files, hash, block_id)) } ELSE { None }
    ELSE { None } \cup { Some(r) : r \in ForeignReplies }

\* a loop that goes on to the next source after a write
after_write_continue(r) == [r EXCEPT !.si = @ + 1]
\* request.rs:211: break, the for loop goes on with the next block
after_write(r) == [r EXCEPT !.bi = @ + 1, !.si = 1]

\* req.log: the connections download has made, one entry per TcpStream::connect
\* (request.rs:195), with what came of it
logged(r, block_id, source, outcome) ==
    [r EXCEPT !.log = Append(@, [block |-> block_id, source |-> source,
                                 si |-> r.si, outcome |-> outcome])]

\* request.rs:192-217: one turn of the inner for loop, for source number si of
\* block number bi of the order
DownloadAttempt ==
    /\ Running("requester")
    /\ req.pc = "blocks"
    /\ req.bi <= Len(req.order)
    /\ LET block_id == req.order[req.bi]
           current_sources == sources[block_id + 1]
           metadata == req.file[1].metadata
           block_size == calculate_block_size(metadata.size)
       IN /\ req.si <= Len(current_sources)
          /\ LET source == current_sources[req.si]
             IN \E answer \in block_answers(source, metadata.hash[1], block_id) :
               IF answer = None \/ answer[1] = << >>
               THEN \* request.rs:212-214: Err(_), or a block of length zero
                    /\ req' = [logged(req, block_id, source,
                                      IF answer = None THEN "failed" ELSE "zero_len")
                                 EXCEPT !.si = @ + 1]
                    /\ UNCHANGED << exit_code, dest, dest_writes >>
               ELSE IF block_id >= Len(metadata.hash[2])
               THEN \* request.rs:208: metadata.hash.1[*block_id] is out of bounds
                    /\ req' = [logged(req, block_id, source, "panicked")
                                 EXCEPT !.pc = "panicked"]
                    /\ UNCHANGED << exit_code, dest, dest_writes >>
               ELSE IF ~ block_verified(Sha256(answer[1]), metadata.hash[2][block_id + 1])
               THEN \* request.rs:208: exit!(1, "HASH MISMATCH")
                    /\ exit_code' = [exit_code EXCEPT !["requester"] = Some(1)]
                    /\ req' = logged(req, block_id, source, "mismatch")
                    /\ UNCHANGED << dest, dest_writes >>
               ELSE \* request.rs:209-211: seek, write_all, break
                    /\ dest' = write_at(dest, block_id * block_size, answer[1])
                    /\ dest_writes' = Append(dest_writes,
                                             [offset |-> block_id * block_size,
                                              bytes |-> answer[1], block |-> Some(block_id)])
                    /\ req' = after_write(logged(req, block_id, source, "written"))
                    /\ UNCHANGED exit_code
    /\ UNCHANGED << sysVars, pureVars, nodeVars, netVars, block_sources, sources >>

\* request.rs:193-194,217: the sources of the block are used up (or there are none)
DownloadNextBlock ==
    /\ Running("requester")
    /\ req.pc = "blocks"
    /\ req.bi <= Len(req.order)
    /\ req.si > Len(sources[req.order[req.bi] + 1])
    /\ req' = [req EXCEPT !.bi = @ + 1, !.si = 1]
    /\ UNCHANGED << sysVars, pureVars, nodeVars, exit_code, netVars,
                    block_sources, sources, dest, dest_writes >>

\* a seek to the start of the file
trailing_offset_start(metadata) == 0
\* request.rs:220: SeekFrom::Start(block_hashes.len() * block_size)
trailing_offset(metadata) ==
    Len(metadata.hash[2]) * calculate_block_size(metadata.size)

\* request.rs:220-221: seek behind the last block, write the trailing bytes
DownloadFinalize ==
    /\ Running("requester")
    /\ req.pc = "blocks"
    /\ req.bi > Len(req.order)
    /\ LET metadata == req.file[1].metadata
           offset == trailing_offset(metadata)
       IN /\ dest' = write_at(dest, offset, metadata.trailing_bytes)
          /\ dest_writes' = Append(dest_writes, [offset |-> offset,
                                                 bytes |-> metadata.trailing_bytes,
                                                 block |-> None])
    /\ req' = [req EXCEPT !.pc = "done"]
    /\ UNCHANGED << sysVars, pureVars, nodeVars, exit_code, netVars, block_sources, sources >>

(***************************************************************************)
(* Other hosts of the network                                              *)
(***************************************************************************)
ForeignIp == "B"
\* the availability lists another peer may send: block ids it claims to hold
ForeignLists == { << 0 >>, << 1, 0 >>, << 0, 0 >> }

\* another peer answers the query of update_sources with a list of its own
ForeignAnnounce ==
    /\ ForeignIp \in DOMAIN latency
    /\ req.pc = "update_sources"
    /\ \A i \in 1 .. Len(udp_sent) : udp_sent[i].from # ForeignIp
    /\ \E list \in ForeignLists :
         udp_sent' = Append(udp_sent, [data |-> list, target |-> SourcesAddr,
                                       from |-> ForeignIp])
    /\ UNCHANGED << sysVars, pureVars, nodeVars, exit_code, mcast, tcp_sent, latency, reqVars >>

\* that peer splits its availability: it sends a further datagram, up to
\* MaxForeignDatagrams in all
MaxForeignDatagrams == 2
ForeignAnnounceMore ==
    /\ req.pc = "update_sources"
    /\ \E i \in 1 .. Len(udp_sent) : udp_sent[i].from = ForeignIp
    /\ Cardinality({ i \in 1 .. Len(udp_sent) : udp_sent[i].from = ForeignIp })
         < MaxForeignDatagrams
    /\ \E list \in ForeignLists :
         udp_sent' = Append(udp_sent, [data |-> list, target |-> SourcesAddr,
                                       from |-> ForeignIp])
    /\ UNCHANGED << sysVars, pureVars, nodeVars, exit_code, mcast, tcp_sent, latency, reqVars >>

\* a whole hash that no file of the bounds has
UnknownHash == Sha256(<< 0 >>)
\* the metadata another peer may serve: one with the whole hash asked for and
\* one with another whole hash, both with one block hash and one trailing byte
ForeignMetadatas(uuid) ==
    { [ hash |-> << h, << Sha256(<< 170 >>) >> >>, size |-> 2, trailing_bytes |-> << 85 >> ] :
        h \in { uuid, UnknownHash } }

\* another peer answers the query of from_metadata: it connects to the address
\* the query came from and writes a FileMetadata (announce.rs:33-37 there)
ForeignMetadata ==
    /\ ForeignIp \in DOMAIN latency
    /\ req.pc \in {"collect", "received"}
    /\ req.tcp_listener = Some(MetadataAddr)
    /\ \A i \in 1 .. Len(tcp_sent) : tcp_sent[i].from # ForeignIp
    /\ \E payload \in ForeignMetadatas(req.uuid) :
         tcp_sent' = Append(tcp_sent, [payload |-> payload, target |-> MetadataAddr,
                                       from |-> ForeignIp])
    /\ UNCHANGED << sysVars, pureVars, nodeVars, exit_code, mcast, udp_sent, latency, reqVars >>

\* another node multicasts a discovery query (request.rs:101-106, 136-142 there)
MaxQueries == 2
ClientAddrs == { [ip |-> "X", port |-> 1] }
QueryData ==
    {<< >>} \cup { Append(h, flag) :
                     h \in { files[i].metadata.hash[1] : i \in 1 .. Len(files) }
                           \cup {UnknownHash},
                     flag \in {0, 1, 2} }

ClientQuery ==
    /\ Running("peer")
    /\ Cataloged
    /\ ann.received + Len(mcast) < MaxQueries
    /\ \E data \in QueryData, src \in ClientAddrs :
         mcast' = Append(mcast, [data |-> data, src |-> src])
    /\ UNCHANGED << sysVars, pureVars, nodeVars, exit_code, udp_sent, tcp_sent, latency, reqVars >>

(***************************************************************************)
(* Initial states                                                          *)
(***************************************************************************)
CbsIdle == [pc |-> "idle", total_size |-> 0, block_size |-> BlockSizeStart, ret |-> None]
SbaIdle == [sources |-> << >>, order |-> None]
ConvIdle == [filesize |-> 0, sources |-> << >>, ret |-> None]
NoExit == [process \in {"peer", "requester"} |-> None]

SeqsUpTo(S, n) == UNION { [ 1 .. k -> S ] : k \in 0 .. n }

\* every file of at most MaxTinySize bytes over the alphabet
TinyContents == SeqsUpTo(ByteAlphabet, MaxTinySize)
\* a file of n bytes that differ from block to block
PatternFile(n) == Vec([ i \in 1 .. n |-> (i * 37) % 256 ])
\* a file of n bytes 0xAA
ConstantFile(n) == Vec([ i \in 1 .. n |-> 170 ])

IdleNode ==
    /\ prep = PrepIdle
    /\ files = << >>
    /\ files_lock = None
    /\ ann = AnnIdle
    /\ exit_code = NoExit
IdleNet ==
    /\ mcast = << >>
    /\ udp_sent = << >>
    /\ tcp_sent = << >>
IdleRequester ==
    /\ req = ReqIdle
    /\ block_sources = << >>
    /\ sources = << >>
    /\ dest = << >>
    /\ dest_writes = << >>
IdlePure ==
    /\ cbs = CbsIdle
    /\ sba = SbaIdle
    /\ conv = ConvIdle
IdleServers ==
    /\ srv = SrvIdle
    /\ png = PngIdle
    /\ node_main = MainIdle

(***************************************************************************)
(* SpecBlockSize: calculate_block_size run on every size of the bounds,    *)
(* one iteration of its while loop per step.                               *)
(***************************************************************************)
BlockSizeInputs == (0 .. MaxSmallSize) \cup {HugeSize}

InitBlockSize ==
    /\ \E n \in BlockSizeInputs :
        cbs = [pc |-> "while", total_size |-> n, block_size |-> BlockSizeStart, ret |-> None]
    /\ sba = SbaIdle /\ conv = ConvIdle
    /\ disk = << >> /\ latency = << >>
    /\ IdleNode /\ IdleNet /\ IdleRequester /\ IdleServers

\* helpers.rs:21-23
BlockSizeIterate ==
    /\ cbs.pc = "while"
    /\ bs_while(cbs.block_size, cbs.total_size)
    /\ cbs' = [cbs EXCEPT !.block_size = @ + 1]
    /\ UNCHANGED << sysVars, sba, conv, nodeVars, exit_code, netVars, reqVars >>

\* helpers.rs:25
BlockSizeReturn ==
    /\ cbs.pc = "while"
    /\ ~ bs_while(cbs.block_size, cbs.total_size)
    /\ cbs' = [cbs EXCEPT !.pc = "returned", !.ret = Some(bs_return(cbs.block_size))]
    /\ UNCHANGED << sysVars, sba, conv, nodeVars, exit_code, netVars, reqVars >>

NextBlockSize == BlockSizeIterate \/ BlockSizeReturn

SpecBlockSize == InitBlockSize /\ [][NextBlockSize]_vars

(***************************************************************************)
(* SpecPrepare: File::prepare run on one file                              *)
(***************************************************************************)
PrepareContents ==
    TinyContents \cup { PatternFile(2002), PatternFile(2003), PatternFile(3003),
                        ConstantFile(4096) }

InitPrepare ==
    /\ \E content \in PrepareContents : disk = << content >>
    /\ latency = << >>
    /\ IdlePure /\ IdleNode /\ IdleNet /\ IdleRequester /\ IdleServers

NextPrepare == PrepareOpen \/ PrepareByte \/ PrepareFinish

SpecPrepare == InitPrepare /\ [][NextPrepare]_vars

(***************************************************************************)
(* SpecSort: sort_by_block_availability applied to every BlockSources of   *)
(* at most MaxSortBlocks blocks with 0..3 sources each                     *)
(***************************************************************************)
MaxSortBlocks == 4
SourceLists == { << >>, << "A" >>, << "A", "B" >>, << "A", "B", "C" >> }

InitSort ==
    /\ \E srcs \in SeqsUpTo(SourceLists, MaxSortBlocks) :
         sba = [sources |-> srcs, order |-> None]
    /\ cbs = CbsIdle /\ conv = ConvIdle
    /\ disk = << >> /\ latency = << >>
    /\ IdleNode /\ IdleNet /\ IdleRequester /\ IdleServers

SortByBlockAvailability ==
    /\ sba.order = None
    /\ sba' = [sba EXCEPT !.order = Some(sort_by_block_availability(sba.sources))]
    /\ UNCHANGED << sysVars, cbs, conv, nodeVars, exit_code, netVars, reqVars >>

NextSort == SortByBlockAvailability

SpecSort == InitSort /\ [][NextSort]_vars

(***************************************************************************)
(* SpecConvert: convert_block_sources applied to the lists of two peers    *)
(* for a file of two blocks, under every latency and iteration order       *)
(***************************************************************************)
MaxRankLen == 2
ConvFileSize == 2
ConvPeers == { "X", "Y" }
LatencyValues == { None, Some(2), Some(50) }
\* the lists a peer may have sent: block ids 0 and 1, and 2, which the file
\* does not have
ConvLists == SeqsUpTo(0 .. ConvFileSize, MaxRankLen)

InitConvert ==
    /\ latency \in [ ConvPeers -> LatencyValues ]
    /\ \E D \in SUBSET ConvPeers : \E srcmap \in [ D -> ConvLists ] :
         conv = [filesize |-> ConvFileSize, sources |-> srcmap, ret |-> None]
    /\ cbs = CbsIdle /\ sba = SbaIdle
    /\ disk = << >>
    /\ IdleNode /\ IdleNet /\ IdleRequester /\ IdleServers

ConvertBlockSources ==
    /\ conv.ret = None
    /\ \E order \in Orders(DOMAIN conv.sources) :
         conv' = [conv EXCEPT
                    !.ret = Some(convert_block_sources(conv.filesize, conv.sources, order))]
    /\ UNCHANGED << sysVars, cbs, sba, nodeVars, exit_code, netVars, reqVars >>

NextConvert == ConvertBlockSources

SpecConvert == InitConvert /\ [][NextConvert]_vars

(***************************************************************************)
(* SpecAnnounce: a node prepares the files of its disk and then answers    *)
(* the discovery queries of other nodes                                    *)
(***************************************************************************)
MaxCatalog == 2
CatalogContents == { << >>, << 170 >>, << 170, 85 >>, << 85, 170, 85 >> }

InitAnnounce ==
    /\ disk \in SeqsUpTo(CatalogContents, MaxCatalog)
    /\ latency = << >>
    /\ IdlePure /\ IdleNode /\ IdleNet /\ IdleRequester /\ IdleServers

NextAnnounce ==
    \/ PrepareOpen \/ PrepareByte \/ PrepareFinish
    \/ ClientQuery
    \/ AnnounceReceive \/ AnnounceLock \/ AnnounceFilter \/ AnnounceReply \/ AnnounceUnlock

SpecAnnounce == InitAnnounce /\ [][NextAnnounce]_vars

(***************************************************************************)
(* SpecTransfer: the serving peer prepares one file; a requester asks for  *)
(* its metadata and downloads it.  There may be a second peer that         *)
(* announces and answers what it likes.                                    *)
(***************************************************************************)
TransferContents == TinyContents

InitTransfer ==
    /\ \E content \in TransferContents : disk = << content >>
    /\ \/ latency = [ ip \in {PeerIp} |-> Some(50) ]
       \/ \E l \in LatencyValues :
            latency = [ ip \in {PeerIp, ForeignIp} |-> IF ip = PeerIp THEN Some(50) ELSE l ]
    /\ IdlePure /\ IdleNode /\ IdleNet /\ IdleRequester /\ IdleServers

\* the requester asks for a file of the serving peer's catalog
RequestFile ==
    /\ Running("requester")
    /\ Cataloged
    /\ req.pc = "idle"
    /\ req.uuid = << >>
    /\ \E i \in 1 .. Len(files) : req' = [req EXCEPT !.uuid = files[i].metadata.hash[1]]
    /\ UNCHANGED << sysVars, pureVars, nodeVars, exit_code, netVars,
                    block_sources, sources, dest, dest_writes >>

NextTransfer ==
    \/ PrepareOpen \/ PrepareByte \/ PrepareFinish
    \/ AnnounceReceive \/ AnnounceLock \/ AnnounceFilter \/ AnnounceReply \/ AnnounceUnlock
    \/ RequestFile
    \/ FromMetadataSpawn \/ TcpBind \/ TcpReady \/ FromMetadataWait
    \/ FromMetadataSend \/ FromMetadataAccept \/ TcpAcceptFail \/ FromMetadataRecv
    \/ FromMetadataReturn \/ FromMetadataTimeout
    \/ UpdateSourcesSend \/ UpdateSourcesRecv \/ UpdateSourcesConvert
    \/ ForeignAnnounce \/ ForeignMetadata
    \/ DownloadCreate \/ DownloadAttempt \/ DownloadNextBlock \/ DownloadFinalize

SpecTransfer == InitTransfer /\ [][NextTransfer]_vars

(***************************************************************************)
(* SpecSources: as SpecTransfer up to the end of update_sources, with a    *)
(* second peer that may split its availability over several datagrams     *)
(***************************************************************************)
NextSources ==
    \/ PrepareOpen \/ PrepareByte \/ PrepareFinish
    \/ AnnounceReceive \/ AnnounceLock \/ AnnounceFilter \/ AnnounceReply \/ AnnounceUnlock
    \/ RequestFile
    \/ FromMetadataSpawn \/ TcpBind \/ TcpReady \/ FromMetadataWait
    \/ FromMetadataSend \/ FromMetadataAccept \/ TcpAcceptFail \/ FromMetadataRecv
    \/ FromMetadataReturn \/ FromMetadataTimeout
    \/ UpdateSourcesSend \/ UpdateSourcesRecv \/ UpdateSourcesConvert
    \/ ForeignAnnounce \/ ForeignAnnounceMore \/ ForeignMetadata

\* files of no, one and two blocks
SourcesContents == { << >>, << 170, 85 >>, << 170, 85, 170 >> }

InitSources ==
    /\ \E content \in SourcesContents : disk = << content >>
    /\ \E l \in LatencyValues :
         latency = [ ip \in {PeerIp, ForeignIp} |-> IF ip = PeerIp THEN Some(50) ELSE l ]
    /\ IdlePure /\ IdleNode /\ IdleNet /\ IdleRequester /\ IdleServers

SpecSources == InitSources /\ [][NextSources]_vars

(***************************************************************************)
(* SpecServe: announce(files) started on a catalog of one file whose       *)
(* blocks already carry serve counts, as the catalog main.rs builds        *)
(* (main.rs:226-232: blocks [(0, 2), (1, 1), (2, 0)]), answering queries   *)
(***************************************************************************)
MaxBusyBlocks == 3
MaxServeCount == 2
\* main.rs:228: the bytes of "some random file contents\n"
ExampleContents ==
    << 115, 111, 109, 101, 32, 114, 97, 110, 100, 111, 109, 32,
       102, 105, 108, 101, 32, 99, 111, 110, 116, 101, 110, 116,
       115, 10 >>
\* main.rs:227-230
ExampleMetadata ==
    [ hash |-> << Sha256(ExampleContents), << >> >>,
      size |-> 100000,
      trailing_bytes |-> << >> ]
\* blocks 0..n-1 in the order of their ids, each with a serve count
BusyBlocks ==
    UNION { { Vec([ i \in 1 .. n |-> << i - 1, counts[i] >> ]) :
                counts \in [ 1 .. n -> 0 .. MaxServeCount ] } : n \in 0 .. MaxBusyBlocks }

InitServe ==
    /\ disk = << << >> >>
    /\ prep = PrepIdle
    /\ \E blocks \in BusyBlocks :
         files = << [ metadata |-> ExampleMetadata, blocks |-> blocks, local_path |-> 1 ] >>
    /\ files_lock = None
    /\ ann = AnnIdle
    /\ exit_code = NoExit
    /\ latency = << >>
    /\ IdlePure /\ IdleNet /\ IdleRequester /\ IdleServers

NextServe ==
    \/ ClientQuery
    \/ AnnounceReceive \/ AnnounceLock \/ AnnounceFilter \/ AnnounceReply \/ AnnounceUnlock

SpecServe == InitServe /\ [][NextServe]_vars

(***************************************************************************)
(* SpecBlockServer: announce(files) and the block server on a catalog of   *)
(* one file of the disk, built by hand as main.rs builds its catalog       *)
(* (main.rs:226-232), answering queries and block requests                 *)
(***************************************************************************)
\* files of no, two and three blocks
ServerContents == { << >>, << 170, 85 >>, << 170, 85, 170 >> }
\* main.rs:231: blocks: vec![(0, 2), (1, 1), (2, 0)], and a file without blocks
ServerBlocks == { << >>, << << 0, 2 >>, << 1, 1 >>, << 2, 0 >> >> }

InitBlockServer ==
    /\ \E content \in ServerContents, blocks \in ServerBlocks :
         /\ disk = << content >>
         /\ files = << [ metadata |-> [ hash |-> << Sha256(content), << >> >>,
                                        size |-> Len(content),
                                        trailing_bytes |-> << >> ],
                         blocks |-> blocks, local_path |-> 1 ] >>
    /\ prep = PrepIdle
    /\ files_lock = None
    /\ ann = AnnIdle
    /\ exit_code = NoExit
    /\ latency = << >>
    /\ IdlePure /\ IdleNet /\ IdleRequester /\ IdleServers

NextBlockServer ==
    \/ ClientQuery
    \/ AnnounceReceive \/ AnnounceLock \/ AnnounceFilter \/ AnnounceReply \/ AnnounceUnlock
    \/ ServerAccept \/ WorkerLock \/ WorkerServe

SpecBlockServer == InitBlockServer /\ [][NextBlockServer]_vars

(***************************************************************************)
(* SpecPing: the ping server and a client that pings it MaxPings times     *)
(***************************************************************************)
InitPing ==
    /\ disk = << >> /\ latency = << >>
    /\ IdlePure /\ IdleNode /\ IdleNet /\ IdleRequester /\ IdleServers

NextPing ==
    \/ Tick
    \/ PingServerStart \/ PingServerAccept \/ PingServerRead \/ PingServerWrite
    \/ PingServerClose
    \/ PingConnect \/ PingWrite \/ PingRead \/ PingAgain

SpecPing == InitPing /\ [][NextPing]_vars

(***************************************************************************)
(* SpecMain: main() started in a directory whose ./test is any file of at  *)
(* most MaxMainSize bytes                                                  *)
(***************************************************************************)
InitMain ==
    /\ \E content \in SeqsUpTo(ByteAlphabet, MaxMainSize) : disk = << content >>
    /\ latency = << >>
    /\ srv = SrvIdle /\ png = PngIdle
    /\ node_main = [MainIdle EXCEPT !.pc = "start"]
    /\ IdlePure /\ IdleNode /\ IdleNet /\ IdleRequester

NextMain == MainStart \/ ReadFileByte \/ ReadFileFinish \/ MainContinue

SpecMain == InitMain /\ [][NextMain]_vars

(***************************************************************************)
(* SpecConcurrent: a node prepares the files of its disk; two requesters   *)
(* each multicast one query for the first file of its catalog.  The        *)
(* threads of the node are scheduled fairly.                               *)
(***************************************************************************)
Requesters == { [ip |-> "X", port |-> 1], [ip |-> "Y", port |-> 1] }

\* request.rs:106, 142 on the requester r: it has not sent a query before
RequesterQuery ==
    /\ Cataloged
    /\ Len(files) >= 1
    /\ ann.received + Len(mcast) < Cardinality(Requesters)
    /\ \E r \in Requesters, flag \in {0, 1} :
         /\ \A i \in 1 .. Len(mcast) : mcast[i].src # r
         /\ ann.src # Some(r)
         /\ mcast' = Append(mcast, [data |-> Append(files[1].metadata.hash[1], flag),
                                    src |-> r])
    /\ UNCHANGED << sysVars, pureVars, nodeVars, exit_code, udp_sent, tcp_sent, latency, reqVars >>

InitConcurrent ==
    /\ disk \in SeqsUpTo(CatalogContents, MaxCatalog)
    /\ latency = << >>
    /\ IdlePure /\ IdleNode /\ IdleNet /\ IdleRequester /\ IdleServers

PrepareThread == PrepareOpen \/ PrepareByte \/ PrepareFinish
AnnounceThread ==
    AnnounceReceive \/ AnnounceLock \/ AnnounceFilter \/ AnnounceReply \/ AnnounceUnlock

NextConcurrent == PrepareThread \/ AnnounceThread \/ RequesterQuery

SpecConcurrent ==
    /\ InitConcurrent
    /\ [][NextConcurrent]_vars
    /\ WF_vars(PrepareThread)
    /\ WF_vars(AnnounceThread)

(***************************************************************************)
(* Properties                                                              *)
(***************************************************************************)

\* C7 (as stated): for every file size n, calculate_block_size(n) returns the
\* smallest integer b >= 2 such that b >= 1_000_000 or n / b <= 1000.
IsSmallestBlockSize(b, n) ==
    /\ b >= 2
    /\ (b >= 1000000 \/ n \div b <= 1000)
    /\ \A c \in 2 .. b - 1 : ~ (c >= 1000000 \/ n \div c <= 1000)
C7_ReturnsSmallest ==
    cbs.pc = "returned" => IsSmallestBlockSize(cbs.ret[1], cbs.total_size)

\* C7 (amended): for every file size n, calculate_block_size(n) returns b - 1,
\* where b is the smallest integer >= 2 such that b >= 1_000_000 or n / b <= 1000.
C7_ReturnsOneBelowSmallest ==
    cbs.pc = "returned" => IsSmallestBlockSize(cbs.ret[1] + 1, cbs.total_size)
\* 4096 bytes: 4096 / 4 = 1024, 4096 / 5 = 819, the loop stops at 5, 4 is returned
C7_Witness ==
    /\ cbs.pc = "returned"
    /\ cbs.total_size = 4096
    /\ cbs.ret = Some(4)

\* C5 (as stated): File::prepare produces exactly n / BlockSize(n) block hashes,
\* block_hashes[i] being the SHA-256 of bytes [i*BlockSize, (i+1)*BlockSize).
C5_BlockHashes ==
    prep.pc = "done" =>
        LET content == disk[prep.path[1]]
            n == Len(content)
            bs == calculate_block_size(n)
            block_hashes == files[Len(files)].metadata.hash[2]
        IN /\ Len(block_hashes) = n \div bs
           /\ \A i \in 1 .. Len(block_hashes) :
                block_hashes[i] = Sha256(SubSeq(content, (i - 1) * bs + 1, i * bs))

\* C6 (as stated): after File::prepare on a file of size n, the bytes left over
\* after the last hashed block number exactly n mod BlockSize(n).
C6_TrailingLength ==
    prep.pc = "done" =>
        LET n == Len(disk[prep.path[1]])
        IN Len(prep.block) = n % calculate_block_size(n)

\* C8 (as stated): the whole-file hash is the SHA-256 of the concatenation of
\* the hashed full blocks only, never of the bytes left over after them.
C8_HashOfFullBlocksOnly ==
    prep.pc = "done" =>
        LET content == disk[prep.path[1]]
            bs == calculate_block_size(Len(content))
            metadata == files[Len(files)].metadata
        IN metadata.hash[1] = Sha256(SubSeq(content, 1, Len(metadata.hash[2]) * bs))

\* C8 (amended): the whole-file hash computed by File::prepare is the SHA-256 of
\* the whole content of the file: the hashed blocks in order, followed by the
\* bytes left over after the last hashed block.
C8_HashOfWholeContent ==
    prep.pc = "done" =>
        files[Len(files)].metadata.hash[1] = Sha256(disk[prep.path[1]])
\* a prepared file with hashed blocks and bytes left over after them
C8_Witness ==
    /\ prep.pc = "done"
    /\ Len(prep.block_hashes) > 1
    /\ prep.block # << >>

\* C3: sort_by_block_availability returns a permutation of the block ids
\* 0..len-1 in which every block with a source precedes every block without
\* one, and among the blocks with a source the source count is non-decreasing.
C3_RarityOrder ==
    sba.order # None =>
        LET order == sba.order[1]
            count(k) == Len(sba.sources[order[k] + 1])
        IN /\ Len(order) = Len(sba.sources)
           /\ { order[k] : k \in 1 .. Len(order) } = 0 .. Len(sba.sources) - 1
           /\ \A j, k \in 1 .. Len(order) :
                j < k => /\ count(j) = 0 => count(k) = 0
                         /\ count(j) > 0 /\ count(k) > 0 => count(j) <= count(k)
\* source counts 3, 2, 1 for blocks 0, 1, 2 give the order 2, 1, 0
C3_Witness ==
    /\ sba.sources = << << "A", "B", "C" >>, << "A", "B" >>, << "A" >> >>
    /\ sba.order = Some(<< 2, 1, 0 >>)

\* C4 (as stated): in the source list convert_block_sources builds for a block,
\* peers are ordered by ascending rank, and peers of equal rank by ascending
\* ping latency, a peer whose ping failed coming after every peer with a
\* finite latency.  (Stated for the peers that list the block once.)
latency_before(a, b) == a # None /\ (b = None \/ a[1] < b[1])
C4_SourceOrder ==
    (conv.ret # None /\ conv.ret[1] # None) =>
        \A b \in 1 .. Len(conv.ret[1][1]) :
            LET list == conv.ret[1][1][b]
                ranks(p) == { r \in 1 .. Len(conv.sources[p]) : conv.sources[p][r] = b - 1 }
                once(p) == Cardinality(ranks(p)) = 1
                rank(p) == CHOOSE r \in ranks(p) : TRUE
            IN \A j, k \in 1 .. Len(list) :
                 (j < k /\ once(list[j]) /\ once(list[k])) =>
                    /\ rank(list[j]) <= rank(list[k])
                    /\ rank(list[j]) = rank(list[k]) =>
                         ~ latency_before(ping(list[k]), ping(list[j]))

\* C9 (as stated): while the announce handler handles a query whose hash equals
\* no catalog entry's whole hash, no UDP datagram is sent, no TCP connection
\* is opened and the process does not exit.
C9_UnknownHashDropped ==
    [][ (ann.pc \in {"filter", "reply"} /\ matching_files(files, ann.data) = << >>)
          => /\ udp_sent' = udp_sent
             /\ tcp_sent' = tcp_sent
             /\ exit_code' = exit_code ]_vars

\* C10 (as stated): the announce handler aborts the process with exit code 1 on
\* a query only if more than one catalog entry has the queried hash, and it
\* replies only if at most one has it.
C10_AbortIffDuplicate ==
    /\ exit_code["peer"] = Some(1) => Len(matching_files(files, ann.data)) > 1
    /\ ann.pc = "reply" => Len(matching_files(files, ann.data)) <= 1

\* C2: every block written to the destination file is written at offset
\* block_id * BlockSize(size) and has SHA-256 equal to the block hash of
\* block_id in the metadata: no received bytes are written unverified.
C2_VerifiedWrites ==
    \A k \in 1 .. Len(dest_writes) :
        dest_writes[k].block # None =>
            LET block_id == dest_writes[k].block[1]
                metadata == req.file[1].metadata
            IN /\ block_id < Len(metadata.hash[2])
               /\ Sha256(dest_writes[k].bytes) = metadata.hash[2][block_id + 1]
               /\ dest_writes[k].offset = block_id * calculate_block_size(metadata.size)
               /\ Len(dest) >= dest_writes[k].offset + Len(dest_writes[k].bytes)
\* a download that wrote block 1 after asking a peer other than the serving one
C2_Witness ==
    /\ req.pc = "done"
    /\ ForeignIp \in DOMAIN block_sources
    /\ \E k \in 1 .. Len(dest_writes) : dest_writes[k].block = Some(1)

\* C1 (as stated): preparing a file at peer A and downloading it at a requester
\* whose only source is peer A, every reply of A having arrived, leaves a
\* destination file byte-identical to the original.
C1_Roundtrip ==
    ( /\ req.pc = "done"
      /\ DOMAIN latency = {PeerIp}
      /\ ~ req.missed
      /\ exit_code = NoExit ) => dest = disk[1]

\* C11 (as stated): for a query that matches exactly one catalog entry whose
\* blocks list is non-empty, the announce handler sends one Availability reply
\* to the query's source address whatever the flag byte is; with flag 1 it
\* additionally attempts the TCP metadata reply to the same address.
C11_AvailabilityWhateverFlag ==
    [][ ( /\ ann.pc = "reply"
          /\ ann'.matching # ann.matching
          /\ Len(matching_files(files, ann.data)) = 1
          /\ files[Head(ann.matching)].blocks # << >> )
        => LET i == Head(ann.matching)
               src == ann.src[1]
           IN /\ udp_sent' = Append(udp_sent, [data |-> block_list_of(files'[i].blocks),
                                               target |-> src, from |-> PeerIp])
              /\ tcp_sent' # tcp_sent =>
                   /\ ann.file_details_requested = Some(1)
                   /\ tcp_sent' = Append(tcp_sent, [payload |-> files[i].metadata,
                                                    target |-> src, from |-> PeerIp]) ]_vars

\* C12: in every Availability reply the block ids are those of the file's
\* blocks list, in non-decreasing order of their serve count at the time of
\* the reply (so the first is one served least); a file with an empty blocks
\* list produces no Availability reply.
C12_LeastBusyFirst ==
    [][ (ann.pc = "reply" /\ ann'.matching # ann.matching)
        => LET file == files[Head(ann.matching)]
               count(id) == (CHOOSE e \in { file.blocks[n] : n \in 1 .. Len(file.blocks) } :
                               e[1] = id)[2]
           IN /\ file.blocks = << >> => udp_sent' = udp_sent
              /\ udp_sent' # udp_sent =>
                   LET data == udp_sent'[Len(udp_sent')].data
                   IN /\ Len(data) = Len(file.blocks)
                      /\ { data[k] : k \in 1 .. Len(data) }
                           = { file.blocks[n][1] : n \in 1 .. Len(file.blocks) }
                      /\ \A j, k \in 1 .. Len(data) :
                           j < k => count(data[j]) <= count(data[k]) ]_vars
\* the catalog of main.rs: counts 2, 1, 0 for blocks 0, 1, 2 are announced as 2, 1, 0
C12_Witness ==
    /\ files[1].blocks = << << 2, 0 >>, << 1, 1 >>, << 0, 2 >> >>
    /\ \E k \in 1 .. Len(udp_sent) : udp_sent[k].data = << 2, 1, 0 >>

\* C13: the discovery query of from_metadata is transmitted only after the
\* tcp_ready latch is true, and the latch becomes true only after the TCP
\* listener has been bound to the handle's address: no query is on the wire
\* while the requester's TCP port is not yet listening.  (The TCP thread is
\* past its bind when it is at accept or has ended after accept.)
C13_QueryAfterListen ==
    [][ /\ (Len(mcast') > Len(mcast) /\ mcast'[Len(mcast')].src = MetadataAddr)
             => (req.tcp_ready /\ req.tcp_pc \in {"accept", "done"})
        /\ (~ req.tcp_ready /\ req'.tcp_ready)
             => req.tcp_listener = Some(MetadataAddr) ]_vars
\* the query is on the wire, the listener is bound and nothing has connected yet
C13_Witness ==
    /\ req.pc = "collect"
    /\ req.tcp_ready
    /\ req.tcp_listener = Some(MetadataAddr)
    /\ \E k \in 1 .. Len(mcast) : mcast[k].src = MetadataAddr

\* C14: when the TCP thread reads a metadata reply whose whole hash differs
\* from the requested hash, the process terminates with exit code 2 and the
\* metadata is not handed on; every File from_metadata returns carries the
\* requested whole hash.
C14_MismatchExits ==
    [][ /\ ( /\ req.tcp_pc = "accept"
             /\ req'.tcp_read = req.tcp_read + 1
             /\ tcp_sent[req.tcp_read + 1].target = MetadataAddr
             /\ tcp_sent[req.tcp_read + 1].payload.hash[1] # req.uuid )
           => /\ exit_code'["requester"] = Some(2)
              /\ req'.tcp_rx = None
              /\ req'.metadata = None
        /\ req'.metadata # None => req'.metadata[1].hash[1] = req'.uuid
        /\ req'.file # None => req'.file[1].metadata.hash[1] = req'.uuid ]_vars
\* a reply with another whole hash has ended the process with exit code 2
C14_Witness ==
    /\ exit_code["requester"] = Some(2)
    /\ tcp_sent[req.tcp_read].payload.hash[1] # req.uuid

\* C15 (as stated): when the bytes received from a source for a block are
\* non-empty but their SHA-256 differs from the block's hash, the requester
\* writes nothing, does not terminate the process, and goes on to the next
\* source of the block.
C15_MismatchTriesNext ==
    [][ ( /\ Len(req'.log) > Len(req.log)
          /\ req'.log[Len(req'.log)].outcome = "mismatch" )
        => /\ dest' = dest
           /\ exit_code' = exit_code
           /\ req'.pc = "blocks"
           /\ req'.bi = req.bi
           /\ req'.si = req.si + 1 ]_vars

\* C16 (as stated): download does not complete as a success when at least one
\* block of the file was not written: once download has returned, every
\* block of the file has been written.
C16_NoSourceReported ==
    req.pc = "done" =>
        \A b \in 0 .. Len(sources) - 1 :
            \E k \in 1 .. Len(dest_writes) : dest_writes[k].block = Some(b)

\* C17 (as stated): from_metadata returns the "no metadata within the window"
\* outcome (None) only when its collection loop took no metadata from the TCP
\* channel inside the window; metadata taken inside the window is returned.
C17_ReceivedIsReturned ==
    req.pc = "no_file" => req.metadata = None

\* C18 (as stated): the catalog mutex is never held while a thread performs
\* I/O: when the announce handler is about to connect for the TCP metadata
\* reply or to send the UDP reply, it does not hold the catalog lock.
C18_NoLockAcrossIO ==
    ( /\ ann.pc = "reply"
      /\ ann.matching # << >>
      /\ \/ ann.file_details_requested = Some(1)
         \/ /\ ann.file_details_requested = Some(0)
            /\ files[Head(ann.matching)].blocks # << >> )
    => files_lock # Some("announce")

\* C19: during download the blocks are attempted in the order of
\* sort_by_block_availability and the sources of a block in the order of its
\* source list; a connect failure or a zero-length reply writes nothing and
\* leads to the next source; after the source that yields a verified block no
\* further source of that block is contacted, so each block is written at most
\* once, and a block without sources causes no connection.
C19_AttemptOrder ==
    LET log == req.log
        pos(b) == CHOOSE k \in 1 .. Len(req.order) : req.order[k] = b
        srcs(b) == sources[b + 1]
        block_writes == { k \in 1 .. Len(dest_writes) : dest_writes[k].block # None }
    IN /\ \A j \in 1 .. Len(log) :
            /\ log[j].si \in 1 .. Len(srcs(log[j].block))
            /\ log[j].source = srcs(log[j].block)[log[j].si]
       /\ Len(log) > 0 =>
            /\ log[1].si = 1
            /\ \A k \in 1 .. pos(log[1].block) - 1 : srcs(req.order[k]) = << >>
       /\ \A j \in 1 .. Len(log) - 1 :
            \/ /\ log[j + 1].block = log[j].block
               /\ log[j + 1].si = log[j].si + 1
               /\ log[j].outcome \in {"failed", "zero_len"}
            \/ /\ pos(log[j + 1].block) > pos(log[j].block)
               /\ log[j + 1].si = 1
               /\ \/ log[j].outcome = "written"
                  \/ /\ log[j].outcome \in {"failed", "zero_len"}
                     /\ log[j].si = Len(srcs(log[j].block))
               /\ \A k \in pos(log[j].block) + 1 .. pos(log[j + 1].block) - 1 :
                    srcs(req.order[k]) = << >>
       /\ Cardinality(block_writes)
            = Cardinality({ j \in 1 .. Len(log) : log[j].outcome = "written" })
       /\ \A j, k \in block_writes : dest_writes[j].block = dest_writes[k].block => j = k
\* a finished download in which the first source of a block failed, the second
\* delivered it, and a block without sources was passed over
C19_Witness ==
    /\ req.pc = "done"
    /\ \E b \in 1 .. Len(sources) : sources[b] = << >>
    /\ \E j \in 1 .. Len(req.log) - 1 :
         /\ req.log[j].outcome \in {"failed", "zero_len"}
         /\ req.log[j + 1].outcome = "written"
         /\ req.log[j + 1].block = req.log[j].block

\* C20: after update_sources has processed any sequence of availability
\* datagrams, its view holds for every ip the concatenation of the block-id
\* lists of the datagrams received from that ip, in arrival order, and no
\* entry for an ip from which it received nothing.
C20_ViewIsConcatenation ==
    LET received == { k \in 1 .. req.udp_read : udp_sent[k].target = SourcesAddr }
        lists_of(ip) ==
            LET upto[n \in 0 .. req.udp_read] ==
                    IF n = 0 THEN << >>
                    ELSE IF n \in received /\ udp_sent[n].from = ip
                         THEN upto[n - 1] \o udp_sent[n].data
                         ELSE upto[n - 1]
            IN upto[req.udp_read]
    IN /\ DOMAIN block_sources = { udp_sent[k].from : k \in received }
       /\ \A ip \in DOMAIN block_sources : block_sources[ip] = lists_of(ip)
\* two datagrams of one peer and one of another have been aggregated
C20_Witness ==
    /\ req.pc = "update_sources"
    /\ DOMAIN block_sources = {PeerIp, ForeignIp}
    /\ Cardinality({ k \in 1 .. req.udp_read : udp_sent[k].from = ForeignIp }) = 2
    /\ Len(block_sources[ForeignIp]) = 3

\* C21: download writes the trailing bytes of the metadata verbatim at offset
\* block_hashes.length * BlockSize(size), and this write is the last write to
\* the destination file: every block write comes before it.
C21_TrailingWriteLast ==
    /\ req.pc # "done" => \A k \in 1 .. Len(dest_writes) : dest_writes[k].block # None
    /\ req.pc = "done" =>
         LET metadata == req.file[1].metadata
             n == Len(dest_writes)
             offset == Len(metadata.hash[2]) * calculate_block_size(metadata.size)
         IN /\ n >= 1
            /\ dest_writes[n] = [offset |-> offset, bytes |-> metadata.trailing_bytes,
                                 block |-> None]
            /\ \A k \in 1 .. n - 1 : dest_writes[k].block # None
            /\ metadata.trailing_bytes # << >> =>
                 SubSeq(dest, offset + 1, offset + Len(metadata.trailing_bytes))
                    = metadata.trailing_bytes
\* a finished download that wrote a block and then a trailing byte behind it
C21_Witness ==
    /\ req.pc = "done"
    /\ req.file[1].metadata.trailing_bytes # << >>
    /\ Len(dest_writes) >= 2
    /\ dest_writes[Len(dest_writes)].offset > 0

\* C22: the block server answers a block request (whole_hash, block_id) for a
\* cataloged file with exactly BlockSize(size) bytes, the file's bytes at
\* offsets [block_id * BlockSize, (block_id + 1) * BlockSize); for a
\* whole_hash that is not in the catalog it writes no bytes and closes, and
\* the catalog is left as it was.
C22_BlockReplies ==
    \A k \in 1 .. Len(srv.replies) :
        LET r == srv.replies[k]
            content == disk[1]
            block_size == calculate_block_size(Len(content))
        IN IF r.hash = files[1].metadata.hash[1]
           THEN (r.block + 1) * block_size <= Len(content) =>
                    r.bytes = SubSeq(content, r.block * block_size + 1,
                                     (r.block + 1) * block_size)
           ELSE r.bytes = << >>

\* C23: the ping server reads one byte from an incoming connection, writes
\* exactly one byte back and closes; the latency the client returns is the
\* time between its write and the arrival of that echoed byte.
C23_EchoesOneByte ==
    /\ png.closed => Len(png.wrote) = 1
    /\ (png.cpc = "done" /\ png.ret # None /\ png.ret[1] # None) => Len(png.wrote) = 1

\* C24: when two requesters query the same cataloged file on one peer
\* concurrently, the announce loop handles the queries one after the other
\* under the catalog mutex, and under fair scheduling each requester
\* eventually receives its own reply: no query is lost and none is answered
\* to the other requester's address.
C24_Queried(r) ==
    /\ Len(files) >= 1
    /\ files[1].blocks # << >>
    /\ \E i \in 1 .. Len(mcast) :
         mcast[i] = [data |-> Append(files[1].metadata.hash[1], 0), src |-> r]
C24_Answered(r) ==
    \E k \in 1 .. Len(udp_sent) : udp_sent[k].target = r
C24_EachRequesterAnswered ==
    /\ (C24_Queried([ip |-> "X", port |-> 1]) ~> C24_Answered([ip |-> "X", port |-> 1]))
    /\ (C24_Queried([ip |-> "Y", port |-> 1]) ~> C24_Answered([ip |-> "Y", port |-> 1]))

\* C25: at process start the node starts the ping server and the
\* announce/serve loop exactly once each, before any request is made, so
\* both are running when the first request sends its query: the process
\* never ends, and never requests, without having started each of them once.
C25_ServersStartedOnce ==
    (node_main.exit_code # None \/ node_main.requests > 0) =>
        (node_main.ping_servers = 1 /\ node_main.announces = 1)

\* C26: handling a discovery query or a block request changes nothing in the
\* catalog except the order of the matched file's blocks list: the files,
\* their metadata, paths and serve counts stay, every blocks list stays a
\* permutation of what it was, and every Availability reply lists every
\* block id of the file exactly once.
C26_SameElements(a, b) ==
    /\ Len(a) = Len(b)
    /\ \A x \in { a[i] : i \in 1 .. Len(a) } \cup { b[i] : i \in 1 .. Len(b) } :
         Cardinality({ i \in 1 .. Len(a) : a[i] = x }) =
         Cardinality({ i \in 1 .. Len(b) : b[i] = x })
C26_CatalogFrame ==
    [][ /\ Len(files') = Len(files)
        /\ \A i \in 1 .. Len(files) :
             /\ files'[i].metadata = files[i].metadata
             /\ files'[i].local_path = files[i].local_path
             /\ C26_SameElements(files'[i].blocks, files[i].blocks)
        /\ \A k \in Len(udp_sent) + 1 .. Len(udp_sent') :
             \E i \in 1 .. Len(files) :
                C26_SameElements(udp_sent'[k].data, block_list_of(files[i].blocks)) ]_vars
\* a query has reordered the blocks of the file and a block request was served
C26_Witness ==
    /\ files[1].blocks = << << 2, 0 >>, << 1, 1 >>, << 0, 2 >> >>
    /\ udp_sent # << >>
    /\ \E k \in 1 .. Len(srv.replies) : srv.replies[k].outcome = "written"

\* C27: after any sequence of block requests, including ones with an
\* out-of-range block_id or for a file that cannot be read, the announce
\* loop can still take the catalog lock and answers later queries: a failing
\* worker never leaves the catalog permanently unusable.
C27_CatalogStaysUsable ==
    /\ files_lock # Poisoned
    /\ ann.pc # "panicked"

\* C28: each peer IP occurs at most once in the source list of any block,
\* even when a peer's extended list names the same block twice.
C28_PeerOncePerBlock ==
    (conv.ret # None /\ conv.ret[1] # None) =>
        \A b \in 1 .. Len(conv.ret[1][1]) :
            \A i, j \in 1 .. Len(conv.ret[1][1][b]) :
                conv.ret[1][1][b][i] = conv.ret[1][1][b][j] => i = j

\* C29: BlockSources has exactly block_hashes.length entries and every block
\* id looked up in it or in block_hashes is in range; an announced block id
\* that is out of range is ignored and never aborts the request.
C29_BlockIdsInRange ==
    /\ req.pc \in {"create", "blocks", "done"} =>
         Len(sources) = Len(req.file[1].metadata.hash[2])
    /\ req.file # None => req.pc # "panicked"

\* C30: every call of from_metadata eventually returns a File or None (or
\* ends the process with exit code 2): it never waits forever and never
\* panics, also when the TCP thread cannot bind its listener, when accept
\* fails and None is sent, and when no peer connects.
C30_FromMetadataEnds ==
    /\ ~ (req.pc = "wait" /\ req.tcp_pc = "panicked")
    /\ ~ (req.pc = "panicked" /\ req.file = None)
====
